---- MODULE Spec2Model ----
(***************************************************************************)
(* Model of amazon_headphones_scraper/scraper.py.                          *)
(*                                                                         *)
(* Text is a sequence of one-character strings.  A document is a function  *)
(* from field markers (the fixed literal context of each regular          *)
(* expression of the script) to the text found between the marker and the  *)
(* literal that closes it; None when the marker does not occur.  An html   *)
(* value is <<>> for the empty string and <<d>> for a non-empty text with  *)
(* document d.  Optional values are None (<<>>) or Some(v) (<<v>>).        *)
(* Each marker occurs at most once in a document, so re.search has one     *)
(* place to try per pattern; the literal that follows a token ("out of 5", *)
(* "ratings", "<") belongs to the marker.  A decimal value is num/den.     *)
(***************************************************************************)
EXTENDS Integers, Sequences, FiniteSets, TLC

VARIABLES mode, file, pc, i, resp, html, data, ret, out, fetched, extracted

vars == <<mode, file, pc, i, resp, html, data, ret, out, fetched, extracted>>

\* Longest text between a marker and its closing literal.
MaxTok == 2

None == <<>>
Some(v) == <<v>>

----------------------------------------------------------------------------
(* Characters and texts *)

Digit == {"4", "9"}
Space == " "
Char == Digit \cup {".", ",", "$", Space, "x"}

Text == UNION {[1..n -> Char] : n \in 0..MaxTok}

DigitVal == [c \in Digit |-> IF c = "4" THEN 4 ELSE 9]

AllIn(s, C) == \A k \in 1..Len(s) : s[k] \in C

RECURSIVE LStrip(_)
LStrip(s) == IF s # <<>> /\ Head(s) = Space THEN LStrip(Tail(s)) ELSE s

RECURSIVE RStrip(_)
RStrip(s) == IF s # <<>> /\ s[Len(s)] = Space THEN RStrip(SubSeq(s, 1, Len(s) - 1)) ELSE s

\* str.strip()
Strip(s) == LStrip(RStrip(s))

\* re.sub(r'\s+', ' ', s): every run of whitespace becomes one space
RECURSIVE Collapse(_)
Collapse(s) ==
  IF Len(s) < 2 THEN s
  ELSE IF s[1] = Space /\ s[2] = Space THEN Collapse(Tail(s))
  ELSE <<s[1]>> \o Collapse(Tail(s))

\* the longest prefix of s made of characters of C (a greedy [C]* at the start)
RECURSIVE TakeWhile(_, _)
TakeWhile(s, C) ==
  IF s # <<>> /\ Head(s) \in C THEN <<Head(s)>> \o TakeWhile(Tail(s), C) ELSE <<>>

\* s.replace(",", "")
RECURSIVE RemoveCommas(_)
RemoveCommas(s) ==
  IF s = <<>> THEN <<>>
  ELSE IF Head(s) = "," THEN RemoveCommas(Tail(s))
  ELSE <<Head(s)>> \o RemoveCommas(Tail(s))

RECURSIVE Count(_, _)
Count(s, C) ==
  IF s = <<>> THEN 0 ELSE (IF Head(s) \in C THEN 1 ELSE 0) + Count(Tail(s), C)

RECURSIVE Pow10(_)
Pow10(n) == IF n = 0 THEN 1 ELSE 10 * Pow10(n - 1)

\* value of a digit string, most significant digit first
RECURSIVE NatOf(_)
NatOf(s) == IF s = <<>> THEN 0 ELSE 10 * NatOf(SubSeq(s, 1, Len(s) - 1)) + DigitVal[s[Len(s)]]

\* a decimal value num/den in lowest power of ten
RECURSIVE Normalize(_)
Normalize(q) ==
  IF q.den > 1 /\ q.num % 10 = 0 THEN Normalize([num |-> q.num \div 10, den |-> q.den \div 10])
  ELSE q

\* int(s.replace(",", "")) under try/except: None on ValueError
to_int(s) ==
  LET t == RemoveCommas(s)
  IN IF t # <<>> /\ AllIn(t, Digit) THEN Some(NatOf(t)) ELSE None

\* to_float with "return 0.0" in its except branch
to_float_zero(s) ==
  LET dots == Count(s, {"."})
      digits == SelectSeq(s, LAMBDA c : c \in Digit)
      nfrac == IF dots = 1 THEN Len(s) - (CHOOSE k \in 1..Len(s) : s[k] = ".") ELSE 0
  IN IF AllIn(s, Digit \cup {"."}) /\ dots <= 1 /\ digits # <<>>
     THEN Some(Normalize([num |-> NatOf(digits), den |-> Pow10(nfrac)]))
     ELSE Some([num |-> 0, den |-> 1])

\* float(s) under try/except: None on ValueError
to_float(s) ==
  LET dots == Count(s, {"."})
      digits == SelectSeq(s, LAMBDA c : c \in Digit)
      nfrac == IF dots = 1 THEN Len(s) - (CHOOSE k \in 1..Len(s) : s[k] = ".") ELSE 0
  IN IF AllIn(s, Digit \cup {"."}) /\ dots <= 1 /\ digits # <<>>
     THEN Some(Normalize([num |-> NatOf(digits), den |-> Pow10(nfrac)]))
     ELSE None

----------------------------------------------------------------------------
(* Documents *)

SampleMarkers == {"title", "price", "rating", "reviews"}

LiveMarkers == {"productTitle", "priceblock_ourprice", "priceblock_dealprice",
                "a-price-whole", "a-price-fraction", "aria-label", "acrCustomerReviewText"}

\* a well-formed text for each marker
Typical ==
  [m \in SampleMarkers \cup LiveMarkers |->
     CASE m = "title" -> <<"x">>
       [] m = "price" -> <<"$", "9">>
       [] m = "rating" -> <<"4">>
       [] m = "reviews" -> <<"9">>
       [] m = "productTitle" -> <<"x">>
       [] m = "priceblock_ourprice" -> <<"$", "4">>
       [] m = "priceblock_dealprice" -> <<"$", "9">>
       [] m = "a-price-whole" -> <<"4", "9">>
       [] m = "a-price-fraction" -> <<"9", "4">>
       [] m = "aria-label" -> <<"4">>
       [] m = "acrCustomerReviewText" -> <<"9">>]

\* documents over the markers M in which every marker is absent or typical
TypicalDocs(M) == {[m \in M |-> IF m \in S THEN Some(Typical[m]) ELSE None] : S \in SUBSET M}

\* the document over M in which marker m carries text t and the others are typical (those of S) or absent
DocWith(M, m, t, S) ==
  [o \in M |-> IF o = m THEN Some(t) ELSE IF o \in S THEN Some(Typical[o]) ELSE None]

\* the text at marker m of an html value, None when the marker does not occur
Tag(h, m) == IF h = <<>> THEN None ELSE IF m \in DOMAIN h[1] THEN h[1][m] ELSE None

----------------------------------------------------------------------------
(* Regular expressions: each search returns None or Some(group 1) *)

\* TOKEN\s* up to the closing literal, TOKEN = [C]+
MatchTokenThenSpace(o, C) ==
  IF o = None THEN None
  ELSE LET tok == RStrip(o[1]) IN IF tok # <<>> /\ AllIn(tok, C) THEN Some(tok) ELSE None

\* \s*TOKEN\s* up to the closing literal, TOKEN = [C]+
MatchSpaceTokenSpace(o, C) ==
  IF o = None THEN None
  ELSE LET tok == Strip(o[1]) IN IF tok # <<>> /\ AllIn(tok, C) THEN Some(tok) ELSE None

\* <span class="title">([^<]+)</span>
sample_title_match(h) ==
  LET o == Tag(h, "title") IN IF o # None /\ o[1] # <<>> THEN o ELSE None

\* <span class="price">\$?([0-9,.]+)</span>
sample_price_match(h) ==
  LET o == Tag(h, "price")
  IN IF o = None THEN None
     ELSE LET tok == IF o[1] # <<>> /\ Head(o[1]) = "$" THEN Tail(o[1]) ELSE o[1]
          IN IF tok # <<>> /\ AllIn(tok, Digit \cup {",", "."}) THEN Some(tok) ELSE None

\* <span class="rating">([0-9.]+)\s*out of\s*5</span>
sample_rating_match(h) == MatchTokenThenSpace(Tag(h, "rating"), Digit \cup {"."})

\* <span class="reviews">([0-9,]+)\s*ratings</span>
sample_reviews_match(h) == MatchTokenThenSpace(Tag(h, "reviews"), Digit \cup {","})

\* id="productTitle"[^>]*>\s*(.*?)\s*<   (re.S)
live_title_match(h) ==
  LET o == Tag(h, "productTitle") IN IF o = None THEN None ELSE Some(Strip(o[1]))

\* id="priceblock_..."[^>]*>\s*\$([0-9.,]+)
MatchDollarPrice(o) ==
  IF o = None THEN None
  ELSE LET t == LStrip(o[1])
       IN IF t # <<>> /\ Head(t) = "$" /\ TakeWhile(Tail(t), Digit \cup {".", ","}) # <<>>
          THEN Some(TakeWhile(Tail(t), Digit \cup {".", ","}))
          ELSE None

ourprice_match(h) == MatchDollarPrice(Tag(h, "priceblock_ourprice"))

dealprice_match(h) == MatchDollarPrice(Tag(h, "priceblock_dealprice"))

\* class="a-price-whole">\s*([0-9,]+)\s*<
whole_match(h) == MatchSpaceTokenSpace(Tag(h, "a-price-whole"), Digit \cup {","})

\* class="a-price-fraction">\s*([0-9]{2})\s*<
frac_match(h) ==
  LET g == MatchSpaceTokenSpace(Tag(h, "a-price-fraction"), Digit)
  IN IF g # None /\ Len(g[1]) = 2 THEN g ELSE None

\* aria-label="([0-9.]+)\s*out of\s*5\s*stars"
live_rating_match(h) == MatchTokenThenSpace(Tag(h, "aria-label"), Digit \cup {"."})

\* id="acrCustomerReviewText"[^>]*>\s*([0-9,]+)\s*(?:ratings|reviews)\s*<
live_reviews_match(h) == MatchSpaceTokenSpace(Tag(h, "acrCustomerReviewText"), Digit \cup {","})

----------------------------------------------------------------------------
(* Extractors *)

parse_sample_html(h) ==
  LET title_match == sample_title_match(h)
      price_match == sample_price_match(h)
      rating_match == sample_rating_match(h)
      reviews_match == sample_reviews_match(h)
  IN [title |-> IF title_match # None THEN Some(Strip(title_match[1])) ELSE None,
      price |-> IF price_match # None THEN Some(Strip(price_match[1])) ELSE None,
      rating |-> IF rating_match # None THEN to_float(rating_match[1]) ELSE None,
      reviews_count |-> IF reviews_match # None THEN to_int(reviews_match[1]) ELSE None]

\* lines 100-104
live_title(h) ==
  LET m == live_title_match(h) IN IF m # None THEN Some(Strip(Collapse(m[1]))) ELSE None

\* live_price with the deal-price marker searched before the our-price marker
live_price_dealfirst(h) ==
  LET m == IF dealprice_match(h) # None THEN dealprice_match(h) ELSE ourprice_match(h)
  IN IF m = None
     THEN LET m_whole == whole_match(h)
              m_frac == frac_match(h)
          IN IF m_whole # None
             THEN LET whole == RemoveCommas(m_whole[1])
                      frac == IF m_frac # None THEN m_frac[1] ELSE <<"0", "0">>
                  IN Some(whole \o <<".">> \o frac)
             ELSE None
     ELSE m

\* lines 106-120
live_price(h) ==
  LET m == IF ourprice_match(h) # None THEN ourprice_match(h) ELSE dealprice_match(h)
  IN IF m = None
     THEN LET m_whole == whole_match(h)
              m_frac == frac_match(h)
          IN IF m_whole # None
             THEN LET whole == RemoveCommas(m_whole[1])
                      frac == IF m_frac # None THEN m_frac[1] ELSE <<"0", "0">>
                  IN Some(whole \o <<".">> \o frac)
             ELSE None
     ELSE m

\* lines 122-126, 149
live_rating(h) ==
  LET m == live_rating_match(h)
      rating == IF m # None THEN m ELSE None
  IN IF rating # None /\ rating[1] # <<>> THEN to_float(rating[1]) ELSE None

\* lines 128-132, 150
live_reviews_count(h) ==
  LET m == live_reviews_match(h)
      reviews_count == IF m # None THEN m ELSE None
  IN IF reviews_count # None /\ reviews_count[1] # <<>> THEN to_int(reviews_count[1]) ELSE None

\* parse_product_page with "if result['title'] is None" as its final test
parse_product_page_isnone(h) ==
  LET result == [title |-> live_title(h),
                 price |-> live_price(h),
                 rating |-> live_rating(h),
                 reviews_count |-> live_reviews_count(h)]
  IN IF result.title = None THEN None ELSE Some(result)

\* None, or Some(record)
parse_product_page(h) ==
  LET result == [title |-> live_title(h),
                 price |-> live_price(h),
                 rating |-> live_rating(h),
                 reviews_count |-> live_reviews_count(h)]
  IN IF result.title = None \/ result.title[1] = <<>> THEN None ELSE Some(result)

----------------------------------------------------------------------------
(* Environment: the sample file and the network *)

NumCandidates == 2

FileStates ==
  {[st |-> "absent", text |-> <<>>], [st |-> "unreadable", text |-> <<>>]}
    \cup {[st |-> "readable", text |-> b] : b \in {<<>>} \cup {Some(d) : d \in TypicalDocs(SampleMarkers)}}

\* outcomes of the GET request of urlopen
FetchKinds == {"status200", "statusOther", "HTTPError", "URLError", "timeout", "readError", "exception"}

Responses ==
  [kind : FetchKinds, body : {<<>>} \cup {Some(d) : d \in TypicalDocs(LiveMarkers)}]

NoResp == [kind |-> "none", body |-> <<>>]

\* a printed line
Line(tag, url, d) == [tag |-> tag, url |-> url, data |-> d]

----------------------------------------------------------------------------
(* Fetcher and mode controller *)

\* try_fetch without the test of resp.status
try_fetch_nostatus(r) ==
  IF r.kind \in {"HTTPError", "URLError"} THEN [raised |-> FALSE, text |-> <<>>]
  ELSE IF r.kind \in {"timeout", "readError", "exception"} THEN [raised |-> FALSE, text |-> <<>>]
  ELSE [raised |-> FALSE, text |-> r.body]

\* try_fetch without its except clauses
try_fetch_uncaught(r) ==
  IF r.kind \in {"HTTPError", "URLError", "timeout", "readError", "exception"}
  THEN [raised |-> TRUE, text |-> <<>>]
  ELSE IF r.kind # "status200" THEN [raised |-> FALSE, text |-> <<>>]
  ELSE [raised |-> FALSE, text |-> r.body]

\* the value returned and whether an exception leaves the function
try_fetch(r) ==
  IF r.kind \in {"HTTPError", "URLError"} THEN [raised |-> FALSE, text |-> <<>>]
  ELSE IF r.kind \in {"timeout", "readError", "exception"} THEN [raised |-> FALSE, text |-> <<>>]
  ELSE IF r.kind # "status200" THEN [raised |-> FALSE, text |-> <<>>]
  ELSE [raised |-> FALSE, text |-> r.body]

\* run_sample without the os.path.exists test: open() raises on a missing file
run_sample_nocheck(f) ==
  IF f.st \in {"absent", "unreadable"}
  THEN [raised |-> TRUE, ret |-> None, out |-> <<>>, calls |-> <<>>]
  ELSE LET d == parse_sample_html(f.text)
       IN [raised |-> FALSE, ret |-> Some(d),
           out |-> <<Line("sample_parsed", 0, None), Line("data", 0, Some(d))>>,
           calls |-> <<"parse_sample_html">>]

\* run_sample on file state f: whether it raises, what it returns, prints and calls
run_sample(f) ==
  IF f.st = "absent"
  THEN [raised |-> FALSE, ret |-> None,
        out |-> <<Line("sample_not_found", 0, None)>>, calls |-> <<>>]
  ELSE IF f.st = "unreadable"
  THEN [raised |-> TRUE, ret |-> None, out |-> <<>>, calls |-> <<>>]
  ELSE LET d == parse_sample_html(f.text)
       IN [raised |-> FALSE, ret |-> Some(d),
           out |-> <<Line("sample_parsed", 0, None), Line("data", 0, Some(d))>>,
           calls |-> <<"parse_sample_html">>]

Init ==
  /\ mode \in {"sample", "live"}
  /\ file \in FileStates
  /\ pc = "main"
  /\ i = 0
  /\ resp = NoResp
  /\ html = <<>>
  /\ data = None
  /\ ret = None
  /\ out = <<>>
  /\ fetched = <<>>
  /\ extracted = <<>>

\* main, --mode sample: run_sample()
MainSample ==
  /\ pc = "main"
  /\ mode = "sample"
  /\ LET r == run_sample(file)
     IN /\ pc' = IF r.raised THEN "fault" ELSE "done"
        /\ ret' = r.ret
        /\ out' = out \o r.out
        /\ extracted' = extracted \o r.calls
  /\ UNCHANGED <<mode, file, i, resp, html, data, fetched>>

\* main, --mode live: run_live() enters its loop
MainLive ==
  /\ pc = "main"
  /\ mode = "live"
  /\ pc' = "loop"
  /\ i' = 1
  /\ UNCHANGED <<mode, file, resp, html, data, ret, out, fetched, extracted>>

\* for url in CANDIDATE_URLS: print, html = try_fetch(url)
LiveFetch ==
  /\ pc = "loop"
  /\ i <= NumCandidates
  /\ \E r \in Responses :
       /\ resp' = r
       /\ html' = try_fetch(r).text
       /\ pc' = IF try_fetch(r).raised THEN "fault" ELSE "fetched"
  /\ out' = Append(out, Line("fetching", i, None))
  /\ fetched' = Append(fetched, i)
  /\ UNCHANGED <<mode, file, i, data, ret, extracted>>

\* if not html: print, sleep, continue
LiveFetchFailed ==
  /\ pc = "fetched"
  /\ html = <<>>
  /\ out' = Append(out, Line("fetch_failed", i, None))
  /\ i' = i + 1
  /\ pc' = "loop"
  /\ resp' = NoResp
  /\ UNCHANGED <<mode, file, html, data, ret, fetched, extracted>>

\* LiveParse without "return data": a parsed candidate does not end the loop
LiveParse_noreturn ==
  /\ pc = "fetched"
  /\ html # <<>>
  /\ data' = parse_product_page(html)
  /\ extracted' = Append(extracted, "parse_product_page")
  /\ resp' = NoResp
  /\ IF data' # None
     THEN out' = out \o <<Line("live_parsed", i, None), Line("data", i, data')>>
     ELSE out' = Append(out, Line("parse_failed", i, None))
  /\ pc' = "loop"
  /\ i' = i + 1
  /\ UNCHANGED <<mode, file, html, ret, fetched>>

\* data = parse_product_page(html); return it, or print, sleep and go on
LiveParse ==
  /\ pc = "fetched"
  /\ html # <<>>
  /\ data' = parse_product_page(html)
  /\ extracted' = Append(extracted, "parse_product_page")
  /\ resp' = NoResp
  /\ IF data' # None
     THEN /\ out' = out \o <<Line("live_parsed", i, None), Line("data", i, data')>>
          /\ ret' = data'
          /\ pc' = "done"
          /\ i' = i
     ELSE /\ out' = Append(out, Line("parse_failed", i, None))
          /\ ret' = ret
          /\ pc' = "loop"
          /\ i' = i + 1
  /\ UNCHANGED <<mode, file, html, fetched>>

\* LiveFallback with "run_sample()" in place of "return run_sample()"
LiveFallback_noreturn ==
  /\ pc = "loop"
  /\ i > NumCandidates
  /\ LET r == run_sample(file)
     IN /\ pc' = IF r.raised THEN "fault" ELSE "done"
        /\ ret' = None
        /\ out' = out \o <<Line("all_failed", 0, None)>> \o r.out
        /\ extracted' = extracted \o r.calls
  /\ UNCHANGED <<mode, file, i, resp, html, data, fetched>>

\* the loop is exhausted: print, return run_sample()
LiveFallback ==
  /\ pc = "loop"
  /\ i > NumCandidates
  /\ LET r == run_sample(file)
     IN /\ pc' = IF r.raised THEN "fault" ELSE "done"
        /\ ret' = r.ret
        /\ out' = out \o <<Line("all_failed", 0, None)>> \o r.out
        /\ extracted' = extracted \o r.calls
  /\ UNCHANGED <<mode, file, i, resp, html, data, fetched>>

Next == MainSample \/ MainLive \/ LiveFetch \/ LiveFetchFailed \/ LiveParse \/ LiveFallback

Spec == Init /\ [][Next]_vars

\* the script runs to its end: no step that can be taken is postponed for ever
FairSpec == Spec /\ WF_vars(Next)

----------------------------------------------------------------------------
(* The extractors on their own, applied to every document of the bounded sets *)

InitParse ==
  /\ mode = "sample"
  /\ file = [st |-> "absent", text |-> <<>>]
  /\ \/ /\ pc = "call_parse_sample_html"
        /\ \/ html = <<>>
           \/ \E m \in SampleMarkers, t \in Text, S \in SUBSET SampleMarkers :
                html = Some(DocWith(SampleMarkers, m, t, S))
     \/ /\ pc = "call_parse_product_page"
        /\ \/ html = <<>>
           \/ \E m \in LiveMarkers, t \in Text, S \in SUBSET LiveMarkers :
                html = Some(DocWith(LiveMarkers, m, t, S))
  /\ i = 0
  /\ resp = NoResp
  /\ data = None
  /\ ret = None
  /\ out = <<>>
  /\ fetched = <<>>
  /\ extracted = <<>>

ApplySample ==
  /\ pc = "call_parse_sample_html"
  /\ data' = Some(parse_sample_html(html))
  /\ pc' = "ret_parse_sample_html"
  /\ extracted' = Append(extracted, "parse_sample_html")
  /\ UNCHANGED <<mode, file, i, resp, html, ret, out, fetched>>

ApplyLive ==
  /\ pc = "call_parse_product_page"
  /\ data' = parse_product_page(html)
  /\ pc' = "ret_parse_product_page"
  /\ extracted' = Append(extracted, "parse_product_page")
  /\ UNCHANGED <<mode, file, i, resp, html, ret, out, fetched>>

NextParse == ApplySample \/ ApplyLive

SpecParse == InitParse /\ [][NextParse]_vars

----------------------------------------------------------------------------
(* Properties *)

Terminal == pc \in {"done", "fault"}

Range(q) == {q[k] : k \in DOMAIN q}

Tags(q) == {q[k].tag : k \in DOMAIN q}

\* every candidate of the list has been tried and has failed
AllCandidatesFailed ==
  Cardinality({p \in DOMAIN out : out[p].tag \in {"fetch_failed", "parse_failed"}}) = NumCandidates

\* the lines printed after the announcement of the fallback
LinesAfterFallback ==
  LET p == CHOOSE k \in DOMAIN out : out[k].tag = "all_failed" IN SubSeq(out, p + 1, Len(out))

\* the html value h without marker m
Without(h, m) == IF h = <<>> THEN h ELSE Some([o \in DOMAIN h[1] |-> IF o = m THEN None ELSE h[1][o]])

\* two extractor results that agree on every field but f
SameBut(a, b, f) ==
  /\ (a = None) = (b = None)
  /\ a # None => \A g \in {"title", "price", "rating", "reviews_count"} \ {f} : a[1][g] = b[1][g]

\* a token that float() rejects: no digit, or more than one dot
NotAFloat(tok) == Count(tok, Digit) = 0 \/ Count(tok, {"."}) > 1

\* a token that int() rejects once its commas are removed: no digit left
NotAnInt(tok) == Count(tok, Digit) = 0

\* C1: a live-mode run in which every candidate failed ends exactly as a direct
\* sample-mode run on the same file does: same record returned, same lines printed
\* by the sample procedure, same extractor calls, same fault if the file cannot be
\* read; and a sample-mode run ends that way
FallbackEquivalence ==
  LET direct == run_sample(file)
  IN /\ (mode = "sample" /\ Terminal) =>
          /\ (pc = "fault") = direct.raised
          /\ ret = direct.ret
          /\ out = direct.out
          /\ extracted = direct.calls
     /\ (mode = "live" /\ Terminal /\ AllCandidatesFailed) =>
          /\ "all_failed" \in Tags(out)
          /\ (pc = "fault") = direct.raised
          /\ ret = direct.ret
          /\ LinesAfterFallback = direct.out
          /\ SelectSeq(extracted, LAMBDA e : e = "parse_sample_html") = direct.calls

FallbackEquivalenceWitness ==
  /\ mode = "live"
  /\ pc = "done"
  /\ AllCandidatesFailed
  /\ file.st = "readable"
  /\ ret # None
  /\ ret[1].title # None

\* C2 as stated: every live-mode run that has ended has ended normally with a record
LiveAlwaysEndsWithRecord ==
  (mode = "live" /\ Terminal) => (pc = "done" /\ ret # None)

\* C2 as amended: every live-mode run ends, and no fetch or extraction outcome makes
\* it fail: it ends with the record of a candidate, or, after every candidate failed,
\* with the outcome of the sample procedure: a record when the file is readable, the
\* missing-file report and no record when it is absent, the read fault when the file
\* cannot be read
LiveEndsWithCandidateOrSampleOutcome ==
  /\ [](mode = "live" /\ pc = "done" =>
          \/ ret # None /\ ~AllCandidatesFailed /\ "live_parsed" \in Tags(out)
          \/ ret # None /\ AllCandidatesFailed /\ file.st = "readable"
          \/ ret = None /\ AllCandidatesFailed /\ file.st = "absent"
               /\ out[Len(out)].tag = "sample_not_found")
  /\ [](mode = "live" /\ pc = "fault" => AllCandidatesFailed /\ file.st = "unreadable")
  /\ (mode = "live" ~> Terminal)

LiveEndsWithoutRecordWitness ==
  /\ mode = "live"
  /\ pc = "done"
  /\ AllCandidatesFailed
  /\ file.st = "absent"
  /\ ret = None

\* C3: candidates are requested in list order from the first, each at most once; a
\* candidate after the first is requested right after the failure of the one before
\* it; once a candidate is parsed nothing more is requested and the sample procedure
\* does not run
CandidateOrder ==
  /\ Len(fetched) <= NumCandidates
  /\ \A k \in DOMAIN fetched : fetched[k] = k
  /\ Cardinality({p \in DOMAIN out : out[p].tag = "fetching"}) = Len(fetched)
  /\ \A p \in DOMAIN out :
       /\ (out[p].tag = "fetching" /\ out[p].url = 1) => p = 1
       /\ (out[p].tag = "fetching" /\ out[p].url > 1) =>
            /\ p > 1
            /\ out[p - 1].tag \in {"fetch_failed", "parse_failed"}
            /\ out[p - 1].url = out[p].url - 1
       /\ out[p].tag = "live_parsed" =>
            /\ pc = "done"
            /\ p = Len(out) - 1
            /\ out[Len(out)].tag = "data"
            /\ Len(fetched) = out[p].url
            /\ "all_failed" \notin Tags(out)
            /\ "parse_sample_html" \notin Range(extracted)

CandidateOrderWitness ==
  /\ pc = "done"
  /\ fetched = <<1, 2>>
  /\ "live_parsed" \in Tags(out)
  /\ out[2].tag = "parse_failed"

\* C4: parse_product_page returns no record or a record whose title is neither null
\* nor empty; without the title marker it returns no record
NoNullTitle ==
  pc = "ret_parse_product_page" =>
    /\ data = None \/ (data[1].title # None /\ data[1].title[1] # <<>>)
    /\ Tag(html, "productTitle") = None => data = None

NoNullTitleWitness ==
  /\ pc = "ret_parse_product_page"
  /\ Tag(html, "productTitle") = None
  /\ ourprice_match(html) # None
  /\ live_rating_match(html) # None
  /\ data = None

\* C5: with the sample file missing, the sample procedure, run directly or as the
\* fallback, ends normally with the missing-file report as its last line, no record,
\* and no call of the sample extractor
MissingFile ==
  (file.st = "absent" /\ Terminal /\ (mode = "sample" \/ AllCandidatesFailed)) =>
    /\ pc = "done"
    /\ ret = None
    /\ out # <<>>
    /\ out[Len(out)].tag = "sample_not_found"
    /\ Cardinality({p \in DOMAIN out : out[p].tag = "sample_not_found"}) = 1
    /\ "parse_sample_html" \notin Range(extracted)

MissingFileWitness ==
  /\ file.st = "absent"
  /\ mode = "sample"
  /\ pc = "done"
  /\ out = <<Line("sample_not_found", 0, None)>>

\* C6: whatever the outcome of the request, try_fetch returns to its caller, and the
\* text it returns is the body on status 200 and empty otherwise
FetcherNeverRaises ==
  resp # NoResp =>
    /\ pc = "fetched"
    /\ html = IF resp.kind = "status200" THEN resp.body ELSE <<>>

FetcherNeverRaisesWitness ==
  /\ pc = "fetched"
  /\ resp.kind = "statusOther"
  /\ resp.body # <<>>
  /\ html = <<>>

\* C7: in both extractors, a rating or reviews-count token that matched its pattern
\* but is not a number leaves that field null and the result otherwise as it is
\* without that marker
NumericBestEffort ==
  /\ pc = "ret_parse_sample_html" =>
       /\ (sample_rating_match(html) # None /\ NotAFloat(sample_rating_match(html)[1])) =>
            /\ data[1].rating = None
            /\ SameBut(data, Some(parse_sample_html(Without(html, "rating"))), "rating")
       /\ (sample_reviews_match(html) # None /\ NotAnInt(sample_reviews_match(html)[1])) =>
            /\ data[1].reviews_count = None
            /\ SameBut(data, Some(parse_sample_html(Without(html, "reviews"))), "reviews_count")
  /\ pc = "ret_parse_product_page" =>
       /\ (live_rating_match(html) # None /\ NotAFloat(live_rating_match(html)[1])) =>
            /\ data # None => data[1].rating = None
            /\ SameBut(data, parse_product_page(Without(html, "aria-label")), "rating")
       /\ (live_reviews_match(html) # None /\ NotAnInt(live_reviews_match(html)[1])) =>
            /\ data # None => data[1].reviews_count = None
            /\ SameBut(data, parse_product_page(Without(html, "acrCustomerReviewText")), "reviews_count")

NumericBestEffortWitness ==
  /\ pc = "ret_parse_product_page"
  /\ live_rating_match(html) # None
  /\ Count(live_rating_match(html)[1], {"."}) = 2
  /\ data # None
  /\ data[1].rating = None
  /\ data[1].price # None

\* C8: the program never ends in an uncaught error
NoAbnormalTermination == pc # "fault"

\* C9: the rating of every record either extractor returns is null or within [0, 5]
RatingInRange ==
  (pc \in {"ret_parse_sample_html", "ret_parse_product_page"} /\ data # None /\ data[1].rating # None) =>
    (0 <= data[1].rating[1].num /\ data[1].rating[1].num <= 5 * data[1].rating[1].den)

\* C10: the live price is the group of the our-price marker when it matches, else of
\* the deal-price marker when it matches, else whole "." fraction (commas removed
\* from whole, fraction "00" unless the fraction marker matches) when the whole
\* marker matches, else null
PricePriority ==
  (pc = "ret_parse_product_page" /\ data # None) =>
    LET price == data[1].price
        our == ourprice_match(html)
        deal == dealprice_match(html)
        whole == whole_match(html)
        frac == frac_match(html)
    IN /\ our # None => price = our
       /\ (our = None /\ deal # None) => price = deal
       /\ (our = None /\ deal = None /\ whole # None /\ frac # None) =>
            price = Some(RemoveCommas(whole[1]) \o <<".">> \o frac[1])
       /\ (our = None /\ deal = None /\ whole # None /\ frac = None) =>
            price = Some(RemoveCommas(whole[1]) \o <<".", "0", "0">>)
       /\ (our = None /\ deal = None /\ whole = None) => price = None

PricePriorityWitness ==
  /\ pc = "ret_parse_product_page"
  /\ data # None
  /\ ourprice_match(html) # None
  /\ dealprice_match(html) # None
  /\ ourprice_match(html) # dealprice_match(html)
  /\ whole_match(html) # None
  /\ data[1].price = ourprice_match(html)

====
